---- MODULE Spec2Model ----
(***************************************************************************)
(* Nano-Wasm Edge Connector: the policy runtime (host/src/policy_runtime.rs*)
(* ), the /evaluate and /reload handlers (host/src/main.rs), the hot-reload *)
(* watcher (host/src/watcher.rs) and the reference guest (guest/src/lib.rs).*)
(*                                                                         *)
(* Six specifications share the definitions below:                         *)
(*   Spec         the service: a request, the watcher, manual reloads and   *)
(*                the registry (AppState) behind its two tokio RwLocks;     *)
(*   SpecFair     the service up to the dispatch of the evaluation, under   *)
(*                the scheduling of the runtime;                            *)
(*   SpecEval     one call of PolicyRuntime::evaluate_policy, step by step, *)
(*                for every module of the catalogue and every request size; *)
(*   SpecLog      one evaluation of a guest that calls host.log;            *)
(*   SpecHandler  the /evaluate handler over a registry booted with any     *)
(*                module of the catalogue, with no reload;                  *)
(*   SpecPool     evaluate_policy calls running at the same time and one    *)
(*                after another on the blocking threads.                    *)
(***************************************************************************)
EXTENDS Integers, Sequences, FiniteSets, TLC

(***************************************************************************)
(* The evaluate_policy calls of the process.                               *)
(***************************************************************************)
VARIABLES
    evals,           \* the evaluate_policy calls in flight on the blocking threads (SpecPool)
    returned         \* the evaluate_policy calls that returned, in the order of their return

(***************************************************************************)
(* Program constants.                                                      *)
(***************************************************************************)
INPUT_BUFFER_OFFSET == 1024
FUEL_LIMIT == 1000000
GUEST_MAX_LEN == 8192
I32_MAX == 2147483647

(***************************************************************************)
(* usize.  A usize value is kept as [wraps, lo] and stands for             *)
(* wraps * 2^BITS + lo, BITS the pointer width of the build.  A value      *)
(* below 2^31 has wraps = 0 and lo >= 0; a value in the top 2^31 of the    *)
(* range (what `i32 as usize` gives for a negative i32, by sign extension) *)
(* has wraps = 1 and lo < 0.  Every usize the evaluation computes from the *)
(* inputs modelled here is of one of the two forms.                        *)
(***************************************************************************)
Usize(n) == [wraps |-> 0, lo |-> n]

USIZE_MAX == [wraps |-> 1, lo |-> -1]

\* `v as usize` for an i32 v (policy_runtime.rs:78, :50).
I32AsUsize(v) == IF v >= 0 THEN [wraps |-> 0, lo |-> v] ELSE [wraps |-> 1, lo |-> v]

\* `x as i32` for a usize x (policy_runtime.rs:101): the low 32 bits.
UsizeAsI32(x) == x.lo

\* x.wrapping_add(n): the sum modulo 2^BITS.
wrapping_add(x, n) ==
    IF x.wraps = 1
    THEN IF x.lo + n >= 0 THEN [wraps |-> 0, lo |-> x.lo + n]
                          ELSE [wraps |-> 1, lo |-> x.lo + n]
    ELSE [wraps |-> 0, lo |-> x.lo + n]

\* x.saturating_add(n) for a usize x and a length n (policy_runtime.rs:82).
saturating_add(x, n) ==
    IF x.wraps = 1
    THEN IF x.lo + n >= 0 THEN USIZE_MAX ELSE [wraps |-> 1, lo |-> x.lo + n]
    ELSE [wraps |-> 0, lo |-> x.lo + n]

\* x > m for a usize x and a memory size m (policy_runtime.rs:83).
UsizeGt(x, m) == x.wraps = 1 \/ x.lo > m

\* The end of the range taken without the clamp to the memory size (as far as
\* an i32 goes).
UnclampedEnd(start, n, size) ==
    IF start.wraps = 1 \/ n.wraps = 1 THEN I32_MAX
    ELSE IF n.lo >= I32_MAX - start.lo THEN I32_MAX
    ELSE start.lo + n.lo

\* start.saturating_add(n).min(size) for usize start and n and a memory size
\* (policy_runtime.rs:51).  A sum with a term in the top 2^31 of the range
\* saturates or stays in the top of the range, above every memory size; a sum
\* of two values below 2^31 is compared with size before it is formed.
ClampedEnd(start, n, size) ==
    IF start.wraps = 1 \/ n.wraps = 1 THEN size
    ELSE IF start.lo >= size THEN size
    ELSE IF n.lo >= size - start.lo THEN size
    ELSE start.lo + n.lo

\* start < end for a usize start and an end within the memory
\* (policy_runtime.rs:52).
UsizeLt(start, end) == start.wraps = 0 /\ start.lo < end

\* The pointer widths of the targets the host builds for: usize has 32 bits on
\* a 32-bit target and 64 bits on a 64-bit one (x86_64, aarch64).
PointerWidths == {32, 64}

\* The number a usize x stands for on a build whose usize has `bits` bits, as
\* its four 16-bit limbs, least significant first.  `v as usize` sign-extends a
\* negative i32 v: bits 31 .. bits-1 of the result are all set.
UsizeValue(x, bits) ==
    LET low == IF x.wraps = 1 THEN (I32_MAX + x.lo) + 1 ELSE x.lo
        bit31 == IF x.wraps = 1 THEN 32768 ELSE 0
        high == IF x.wraps = 1 /\ bits = 64 THEN 65535 ELSE 0
    IN  <<low % 65536, (low \div 65536) + bit31, high, high>>

(***************************************************************************)
(* Errors (host/src/error.rs) and results.                                 *)
(***************************************************************************)
NoError == [type |-> "none", msg |-> "", consumed |-> 0, offset |-> Usize(0)]

PolicyExecutionError(m) ==
    [type |-> "PolicyExecutionError", msg |-> m, consumed |-> 0, offset |-> Usize(0)]

FuelExhausted(c) ==
    [type |-> "FuelExhausted", msg |-> "", consumed |-> c, offset |-> Usize(0)]

MemoryOutOfBounds(off) ==
    [type |-> "MemoryOutOfBounds", msg |-> "", consumed |-> 0, offset |-> off]

FunctionNotFound(n) ==
    [type |-> "FunctionNotFound", msg |-> n, consumed |-> 0, offset |-> Usize(0)]

WasmLoadError(m) ==
    [type |-> "WasmLoadError", msg |-> m, consumed |-> 0, offset |-> Usize(0)]

\* e.to_string(): the #[error(...)] template of the variant and its fields.
ErrorToString(e) ==
    [fmt |-> CASE e.type = "WasmLoadError" -> "Failed to load WASM module: {0}"
               [] e.type = "PolicyExecutionError" -> "Policy execution failed: {0}"
               [] e.type = "FuelExhausted" -> "Fuel limit exceeded after {consumed} units"
               [] e.type = "MemoryOutOfBounds" -> "Memory access out of bounds at offset {offset}"
               [] e.type = "FunctionNotFound" -> "Function not found: {0}"
               [] OTHER -> "",
     msg |-> e.msg, consumed |-> e.consumed, offset |-> e.offset]

NoResult == [kind |-> "None", allowed |-> FALSE, err |-> NoError]
Ok(b) == [kind |-> "Ok", allowed |-> b, err |-> NoError]
Err(e) == [kind |-> "Err", allowed |-> FALSE, err |-> e]

(***************************************************************************)
(* Artifacts.  An artifact is a byte sequence; what the host can observe   *)
(* of it is its length, whether Module::new accepts it, what the module    *)
(* imports and exports, and what its functions do when called: return a    *)
(* value, trap, or loop for ever, at some cost in fuel.                     *)
(***************************************************************************)
\* A call of the import host.log made by a guest function: its arguments, and
\* whether the bytes of the range it names are valid UTF-8.
LogCall(ptr, len, utf8) == [called |-> TRUE, ptr |-> ptr, len |-> len, utf8 |-> utf8]
NoLogCall == [called |-> FALSE, ptr |-> 0, len |-> 0, utf8 |-> TRUE]

Fn(kind, val, cost, msgFuel) ==
    [kind |-> kind, val |-> val, cost |-> cost, msgFuel |-> msgFuel, log |-> NoLogCall]

Absent == Fn("absent", 0, 0, FALSE)
Returns(v, c) == Fn("ret", v, c, FALSE)
Loops == Fn("loop", 0, 0, FALSE)
\* A trap that is not out-of-fuel; msgFuel: its text holds "fuel" (the wasm
\* backtrace names the guest's functions).
Traps(msgFuel) == Fn("trap", 0, 1, msgFuel)
Mistyped == Fn("mistyped", 0, 0, FALSE)
\* Calls host.log(ptr, len), then returns v.
Logs(v, ptr, len, utf8) == [Returns(v, 10) EXCEPT !.log = LogCall(ptr, len, utf8)]
\* guest/src/lib.rs evaluate_access.
ReferencePolicy == Fn("reference", 0, 5000, FALSE)

HostLog == <<"host", "log">>

Artifact(name, len, compiles, imports, start, memExported, memSize, gib, ea) ==
    [name |-> name, len |-> len, compiles |-> compiles, imports |-> imports,
     start |-> start, memExported |-> memExported, memSize |-> memSize,
     get_input_buffer |-> gib, evaluate_access |-> ea]

\* The reference guest: 17 pages of memory, buffer at 1024.
RefGuest ==
    Artifact("reference", 3, TRUE, {HostLog}, Absent, TRUE, 1114112,
             Returns(INPUT_BUFFER_OFFSET, 10), ReferencePolicy)
\* As long as the reference guest, denies everything.
DenyAll ==
    Artifact("deny_all", 3, TRUE, {}, Absent, TRUE, 65536,
             Returns(INPUT_BUFFER_OFFSET, 10), Returns(0, 10))
AllowAll ==
    Artifact("allow_all", 4, TRUE, {}, Absent, TRUE, 65536,
             Absent, Returns(-7, 10))
NotWasm ==
    Artifact("not_wasm", 2, FALSE, {}, Absent, FALSE, 0, Absent, Absent)
\* As long as the reference guest.
UnknownImport ==
    Artifact("unknown_import", 3, TRUE, {HostLog, <<"env", "abort">>}, Absent,
             TRUE, 65536, Absent, Returns(1, 10))
StartLoop ==
    Artifact("start_loop", 5, TRUE, {}, Loops, TRUE, 65536, Absent, Returns(1, 10))
StartTrap ==
    Artifact("start_trap", 5, TRUE, {}, Traps(FALSE), TRUE, 65536, Absent, Returns(1, 10))
NoMemory ==
    Artifact("no_memory", 5, TRUE, {}, Absent, FALSE, 65536, Absent, Returns(1, 10))
ZeroMemory ==
    Artifact("zero_memory", 5, TRUE, {}, Absent, TRUE, 0, Absent, Returns(1, 10))
NoEvaluate ==
    Artifact("no_evaluate", 5, TRUE, {}, Absent, TRUE, 65536, Absent, Absent)
BadEvaluate ==
    Artifact("bad_evaluate", 5, TRUE, {}, Absent, TRUE, 65536, Mistyped, Mistyped)
GibLoop ==
    Artifact("gib_loop", 5, TRUE, {}, Absent, TRUE, 65536, Loops, Returns(1, 10))
GibTrap ==
    Artifact("gib_trap", 5, TRUE, {}, Absent, TRUE, 65536, Traps(FALSE), Returns(1, 10))
GibNegative ==
    Artifact("gib_negative", 5, TRUE, {}, Absent, TRUE, 65536, Returns(-1, 10), Returns(1, 10))
GibZero ==
    Artifact("gib_zero", 5, TRUE, {}, Absent, TRUE, 65536, Returns(0, 10), Returns(1, 10))
GibHigh ==
    Artifact("gib_high", 5, TRUE, {}, Absent, TRUE, 65536, Returns(65536, 10), Returns(0, 10))
GibCostly ==
    Artifact("gib_costly", 5, TRUE, {}, Returns(0, 300000), TRUE, 65536,
             Returns(2048, 400000), Returns(1, 400000))
EaLoop ==
    Artifact("ea_loop", 5, TRUE, {HostLog}, Absent, TRUE, 65536, Absent, Loops)
EaTrap ==
    Artifact("ea_trap", 5, TRUE, {}, Absent, TRUE, 65536, Absent, Traps(FALSE))
EaTrapFuelText ==
    Artifact("ea_trap_fuel_text", 5, TRUE, {}, Absent, TRUE, 65536, Absent, Traps(TRUE))

Catalogue ==
    {RefGuest, DenyAll, AllowAll, NotWasm, UnknownImport, StartLoop, StartTrap,
     NoMemory, ZeroMemory, NoEvaluate, BadEvaluate, GibLoop, GibTrap, GibNegative,
     GibZero, GibHigh, GibCostly, EaLoop, EaTrap, EaTrapFuelText}

(***************************************************************************)
(* Request bodies.  What the host and the reference guest observe of a     *)
(* body: its length, whether it parses as JSON, and which of the patterns  *)
(* the guest searches for occur in it.                                     *)
(***************************************************************************)
Body(len, json, pats) == [len |-> len, json |-> json, pats |-> pats]

AdminBody == Body(16, TRUE, {"admin"})
BlockedAdminBody == Body(29, TRUE, {"blocked", "admin"})
ViewerWriteBody == Body(34, TRUE, {"viewer", "write"})
OperatorSecretBody == Body(38, TRUE, {"operator", "secret"})
PlainBody == Body(2, TRUE, {})
NotJsonBody == Body(8, FALSE, {})

(***************************************************************************)
(* The reference guest (guest/src/lib.rs).                                 *)
(***************************************************************************)
\* The address of the guest's message strings: its read-only data, above the
\* 1 MiB stack of a Rust wasm32 module.
GUEST_DATA == 1048576

\* host_log(msg): log(msg.as_ptr() as i32, msg.len() as i32), msg a &str of
\* msg_len bytes.
guest_host_log(msg_len) == LogCall(GUEST_DATA, msg_len, TRUE)

\* What a call of evaluate_access does: the value it returns, whether it reads
\* the bytes at [ptr, ptr + len), and its call of host.log.
Outcome(ret, read, log) == [ret |-> ret, read |-> read, log |-> log]

\* Rules 1 to 4 and the default of evaluate_access, over the bytes of the
\* slice: pats are the patterns pattern_match finds in them.
guest_rules(pats) ==
    IF "blocked" \in pats THEN Outcome(0, TRUE, guest_host_log(35))
    ELSE IF "admin" \in pats THEN Outcome(1, TRUE, guest_host_log(35))
    ELSE IF "operator" \in pats
         THEN (IF "secret" \in pats THEN Outcome(0, TRUE, guest_host_log(47))
                                    ELSE Outcome(1, TRUE, guest_host_log(29)))
    ELSE IF "viewer" \in pats
         THEN (IF "write" \in pats THEN Outcome(0, TRUE, guest_host_log(34))
                                   ELSE Outcome(1, TRUE, guest_host_log(39)))
    ELSE Outcome(1, TRUE, guest_host_log(30))

\* evaluate_access without its first statement.
guest_evaluate_access_unguarded(ptr, len, pats) == guest_rules(pats)

\* evaluate_access(ptr, len) over the bytes at [ptr, ptr + len), which are the
\* request's.
guest_evaluate_access(ptr, len, pats) ==
    IF len <= 0 \/ len > GUEST_MAX_LEN \/ ptr < 0 THEN Outcome(0, FALSE, NoLogCall)
    ELSE guest_rules(pats)

(***************************************************************************)
(* PolicyRuntime (host/src/policy_runtime.rs).                             *)
(***************************************************************************)
\* create_edge_engine: the one setting the evaluation depends on.
EngineConfig == [consume_fuel |-> TRUE, epoch_interruption |-> FALSE]

\* PolicyRuntime::new: Module::new compiles the bytes or fails.
PolicyRuntime_new(art) ==
    IF art.compiles
    THEN [ok |-> TRUE, module |-> art, err |-> NoError]
    ELSE [ok |-> FALSE, module |-> art, err |-> WasmLoadError("Failed to compile module")]

\* A call of guest function f with `fuel` left, returning ret when it returns.
\* The engine traps OutOfFuel when the call needs more fuel than is left.
CallGuest(f, fuel, ret) ==
    IF f.kind = "loop" \/ f.cost > fuel
    THEN [outcome |-> "OutOfFuel", val |-> 0, fuel |-> 0, msgFuel |-> TRUE]
    ELSE IF f.kind = "trap"
    THEN [outcome |-> "Trap", val |-> 0, fuel |-> fuel - f.cost, msgFuel |-> f.msgFuel]
    ELSE [outcome |-> "Return", val |-> ret, fuel |-> fuel - f.cost, msgFuel |-> FALSE]

NoWrite == [done |-> FALSE, off |-> Usize(0), len |-> 0]

\* What one call of the host.log closure did: the bytes of the memory it took
\* as a slice, [from, to), and whether it printed them.
Logged(ptr, len, sliced, from, to, forwarded) ==
    [ptr |-> ptr, len |-> len, sliced |-> sliced, from |-> from, to |-> to,
     forwarded |-> forwarded]

\* The closure given to linker.func_wrap("host", "log", ...), called with
\* (ptr, len) over a memory of `size` bytes (exported or not) whose bytes in the
\* range are valid UTF-8 or not.  The closure returns (); it has no failing
\* path.
host_log(ptr, len, exported, size, utf8) ==
    IF ~exported THEN Logged(ptr, len, FALSE, 0, 0, FALSE)
    ELSE LET start == I32AsUsize(ptr)
             end == ClampedEnd(start, I32AsUsize(len), size)
         IN  IF UsizeLt(start, end)
             THEN Logged(ptr, len, TRUE, start.lo, end, utf8)
             ELSE Logged(ptr, len, FALSE, 0, 0, FALSE)

\* The calls of host.log so far, after guest function f ran and made call c.
AfterLog(logs, c, m) ==
    IF c.called
    THEN Append(logs, host_log(c.ptr, c.len, m.memExported, m.memSize, c.utf8))
    ELSE logs

\* Store::new and the locals of evaluate_policy before its first statement.
\* calls, steps, ea, guest_read, logs and written record what the evaluation
\* did: the guest functions it entered, the statements it ran, how
\* evaluate_access ended, whether it read the request, the calls of host.log
\* and the bytes the host wrote.
NewSandbox(module, request) ==
    [pc |-> "set_fuel", module |-> module, request |-> request, fuel |-> 0,
     linked |-> {}, memSize |-> 0, input_ptr |-> Usize(0), written |-> NoWrite,
     calls |-> << >>, steps |-> << >>, ea |-> [outcome |-> "none", val |-> 0],
     guest_read |-> FALSE, logs |-> << >>, result |-> NoResult]

Fail(sb, e) == [sb EXCEPT !.pc = "done", !.result = Err(e)]

\* One fuel budget for all the calls in flight: a call starts with what the
\* others have left of it.
SetFuelShared(s) ==
    LET left == {FUEL_LIMIT} \cup
                {evals[e].call.fuel : e \in {x \in DOMAIN evals : evals[x].call.pc # "set_fuel"}}
    IN  [s EXCEPT !.fuel = CHOOSE f \in left : \A g \in left : f <= g, !.pc = "link"]

\* store.set_fuel(FUEL_LIMIT)
SetFuel(sb) ==
    IF EngineConfig.consume_fuel
    THEN [sb EXCEPT !.fuel = FUEL_LIMIT, !.pc = "link"]
    ELSE Fail(sb, PolicyExecutionError("Failed to set fuel"))

\* linker.func_wrap("host", "log", ...): fails only on a name defined twice.
LinkHostLog(sb) ==
    IF HostLog \in sb.linked
    THEN Fail(sb, PolicyExecutionError("Failed to register log"))
    ELSE [sb EXCEPT !.linked = @ \cup {HostLog}, !.pc = "instantiate"]

\* linker.instantiate: resolves the imports, creates the memory, runs the
\* start function.
Instantiate(sb) ==
    LET m == sb.module
        s == CallGuest(m.start, sb.fuel, 0)
    IN  IF ~(m.imports \subseteq sb.linked)
        THEN Fail(sb, PolicyExecutionError("Failed to instantiate"))
        ELSE IF m.start.kind = "absent"
        THEN [sb EXCEPT !.memSize = m.memSize, !.pc = "get_memory"]
        ELSE IF s.outcome = "Return"
        THEN [sb EXCEPT !.memSize = m.memSize, !.fuel = s.fuel,
                        !.calls = Append(@, "start"),
                        !.logs = AfterLog(@, m.start.log, m), !.pc = "get_memory"]
        ELSE Fail([sb EXCEPT !.fuel = s.fuel, !.calls = Append(@, "start")],
                  PolicyExecutionError("Failed to instantiate"))

\* The memory taken without the check for its absence.
GetMemoryUnchecked(sb) == [sb EXCEPT !.pc = "get_input_buffer"]

\* instance.get_memory(&mut store, "memory")
GetMemory(sb) ==
    IF sb.module.memExported
    THEN [sb EXCEPT !.pc = "get_input_buffer"]
    ELSE Fail(sb, FunctionNotFound("memory"))

\* get_typed_func "get_input_buffer" and its call, or the default offset.
GetInputBuffer(sb) ==
    LET f == sb.module.get_input_buffer
        c == CallGuest(f, sb.fuel, f.val)
    IN  IF f.kind \in {"absent", "mistyped"}
        THEN [sb EXCEPT !.input_ptr = Usize(INPUT_BUFFER_OFFSET), !.pc = "bounds"]
        ELSE IF c.outcome = "Return"
        THEN [sb EXCEPT !.input_ptr = I32AsUsize(c.val), !.fuel = c.fuel,
                        !.calls = Append(@, "get_input_buffer"),
                        !.logs = AfterLog(@, f.log, sb.module), !.pc = "bounds"]
        ELSE Fail([sb EXCEPT !.fuel = c.fuel, !.calls = Append(@, "get_input_buffer")],
                  PolicyExecutionError("Failed to get input buffer"))

\* required_len > memory.data_size(&store)
BoundsCheck(sb) ==
    LET required_len == saturating_add(sb.input_ptr, sb.request.len)
    IN  IF UsizeGt(required_len, sb.memSize)
        THEN Fail(sb, MemoryOutOfBounds(sb.input_ptr))
        ELSE [sb EXCEPT !.pc = "write"]

\* The evaluation going on to the guest with nothing written.
WriteRequestSkipped(sb) == [sb EXCEPT !.pc = "get_evaluate"]

\* memory.write(&mut store, input_ptr, request_data)
WriteRequest(sb) ==
    IF UsizeGt(saturating_add(sb.input_ptr, sb.request.len), sb.memSize)
    THEN Fail(sb, MemoryOutOfBounds(sb.input_ptr))
    ELSE [sb EXCEPT !.written = [done |-> TRUE, off |-> sb.input_ptr, len |-> sb.request.len],
                    !.pc = "get_evaluate"]

\* get_typed_func "evaluate_access" and i32::try_from(request_data.len())
GetEvaluateAccess(sb) ==
    IF sb.module.evaluate_access.kind \in {"absent", "mistyped"}
    THEN Fail(sb, FunctionNotFound("evaluate_access: {}"))
    ELSE IF sb.request.len > I32_MAX
    THEN Fail(sb, PolicyExecutionError("Request too large"))
    ELSE [sb EXCEPT !.pc = "call"]

\* The classification of a failed evaluate.call.
ClassifyCallError(c) ==
    IF c.outcome = "OutOfFuel" THEN FuelExhausted(FUEL_LIMIT)
    ELSE IF c.msgFuel THEN FuelExhausted(FUEL_LIMIT)
    ELSE PolicyExecutionError("Policy execution failed")

\* Ok(result) => Ok(result > 0)
VerdictPositive(r) == r > 0

\* Ok(result) => Ok(result != 0)
Verdict(r) == r # 0

\* evaluate.call(&mut store, (input_ptr as i32, len_i32)) and the match on it.
CallEvaluateAccess(sb) ==
    LET f == sb.module.evaluate_access
        ptr == UsizeAsI32(sb.input_ptr)
        len == sb.request.len
        g == IF f.kind = "reference"
             THEN guest_evaluate_access(ptr, len, sb.request.pats)
             ELSE Outcome(f.val, FALSE, f.log)
        c == CallGuest(f, sb.fuel, g.ret)
        after == [sb EXCEPT !.fuel = c.fuel, !.calls = Append(@, "evaluate_access"),
                            !.ea = [outcome |-> c.outcome, val |-> c.val],
                            !.guest_read = (c.outcome = "Return" /\ g.read),
                            !.logs = IF c.outcome = "Return"
                                     THEN AfterLog(@, g.log, sb.module) ELSE @,
                            !.pc = "done"]
    IN  IF c.outcome = "Return"
        THEN [after EXCEPT !.result = Ok(Verdict(c.val))]
        ELSE [after EXCEPT !.result = Err(ClassifyCallError(c))]

\* The statement at sb.pc.
Statement(sb) ==
    CASE sb.pc = "set_fuel" -> SetFuel(sb)
      [] sb.pc = "link" -> LinkHostLog(sb)
      [] sb.pc = "instantiate" -> Instantiate(sb)
      [] sb.pc = "get_memory" -> GetMemory(sb)
      [] sb.pc = "get_input_buffer" -> GetInputBuffer(sb)
      [] sb.pc = "bounds" -> BoundsCheck(sb)
      [] sb.pc = "write" -> WriteRequest(sb)
      [] sb.pc = "get_evaluate" -> GetEvaluateAccess(sb)
      [] sb.pc = "call" -> CallEvaluateAccess(sb)
      [] OTHER -> sb

\* One statement of evaluate_policy, recorded.
StepSandbox(sb) == [Statement(sb) EXCEPT !.steps = Append(sb.steps, sb.pc)]

RECURSIVE RunSandbox(_)
RunSandbox(sb) == IF sb.pc = "done" THEN sb ELSE RunSandbox(StepSandbox(sb))

\* PolicyRuntime::evaluate_policy(&self, request_data), start to return.
PolicyRuntime_evaluate_policy(module, request) == RunSandbox(NewSandbox(module, request))

(***************************************************************************)
(* Bounds of the model.                                                    *)
(***************************************************************************)
\* Reloads started (by the watcher or by /reload) in one behaviour; events
\* that no reload of the behaviour would take are not sent.
MaxReloads == 2
\* evaluate_policy calls started in one behaviour.
MaxEvaluations == 3
\* The blocking threads that run evaluate_policy calls at the same time.
Evaluations == {"thread1", "thread2"}
Requests == {"req1"}
Watcher == "watcher"
Manual == "reload"
Reloaders == {Watcher, Manual}

\* What ./policies/default.wasm may hold; unreadable: the file cannot be read.
Unreadable == [name |-> "unreadable"]
DiskArtifacts == {RefGuest, UnknownImport, NotWasm}
BootArtifacts == {RefGuest}
Bodies == {AdminBody, NotJsonBody}

\* The requests of SpecEval: lengths around the guest's limit and around the
\* end of a one-page memory, and a 10 MB body.
EvalLens == {0, 16, 8192, 8193, 64512, 64513, 65536, 10485760}
EvalRequests ==
    {Body(n, TRUE, p) : n \in EvalLens, p \in {{}, {"admin"}, {"blocked", "admin"}}}

(***************************************************************************)
(* State.                                                                  *)
(***************************************************************************)
VARIABLES
    disk,            \* the artifact file: an artifact, or Unreadable
    clock,           \* the last reading of SystemTime::now(), in seconds
    events,          \* () messages in the watcher's mpsc channel
    runtime,         \* AppState.runtime: the Arc<PolicyRuntime> behind the lock
    policy_version,  \* AppState.policy_version: the String behind the lock
    runtime_lock,    \* the RwLock around runtime
    version_lock,    \* the RwLock around policy_version
    req,             \* the /evaluate handlers, by request
    rel,             \* the watcher loop and the /reload handler
    reloads,         \* reads of the artifact file by reloads so far
    sb               \* the Store and locals of one evaluate_policy call (SpecEval)

vars == <<disk, clock, events, runtime, policy_version, runtime_lock, version_lock,
          req, rel, reloads, sb, evals, returned>>

None == "none"

\* make_policy_version(bytes_len): "<CARGO_PKG_VERSION>-<len>b-<secs>".
make_policy_version(bytes_len, now) == [pkg |-> "CARGO_PKG_VERSION", len |-> bytes_len, ts |-> now]

\* A registry field, with the publish that wrote it (pub: publishes in the
\* order of their writes, 0 the boot in main()), the other field of that
\* publish and, for the runtime, the read of the file it was compiled from
\* (rd: reads in their order): the program holds module and tag only.
RuntimeEntry(module, pub, tag, rd) ==
    [module |-> module, pub |-> pub, tag |-> tag, rd |-> rd]
VersionEntry(tag, pub, module) == [tag |-> tag, pub |-> pub, module |-> module]

FreeLock == [writer |-> None, readers |-> {}, queue |-> << >>]

\* PolicyResponse.error: Option<String>.
Text(fmt) == [fmt |-> fmt, msg |-> "", consumed |-> 0, offset |-> Usize(0)]
NoErrorField == [present |-> FALSE, text |-> Text("")]
SomeError(text) == [present |-> TRUE, text |-> text]

\* start: the last publish completed when the handler began to acquire its
\* snapshot (the program does not hold it).
IdleRequest ==
    [pc |-> "idle", body |-> PlainBody, start |-> 0,
     runtime |-> RuntimeEntry(RefGuest, 0, make_policy_version(0, 0), 0),
     policy_version |-> VersionEntry(make_policy_version(0, 0), 0, RefGuest),
     eval |-> NoResult, ran |-> FALSE, ea |-> [outcome |-> "none", val |-> 0],
     response |-> [sent |-> FALSE, allowed |-> FALSE,
                   policy_version |-> make_policy_version(0, 0),
                   error |-> NoErrorField]]

IdleReloader ==
    [pc |-> "idle", file |-> RefGuest, module |-> RefGuest,
     new_version |-> make_policy_version(0, 0), rd |-> 0]

\* main(): the boot artifact is read and compiled, the state built from it.
InitService(boot) ==
    /\ disk = boot
    /\ clock = 0
    /\ events = 0
    /\ runtime = RuntimeEntry(PolicyRuntime_new(boot).module, 0,
                               make_policy_version(boot.len, 0), 0)
    /\ policy_version = VersionEntry(make_policy_version(boot.len, 0), 0,
                                     PolicyRuntime_new(boot).module)
    /\ runtime_lock = FreeLock
    /\ version_lock = FreeLock
    /\ req = [r \in Requests |-> IdleRequest]
    /\ rel = [w \in Reloaders |-> IdleReloader]
    /\ reloads = 0
    /\ evals = [e \in {} |-> None]
    /\ returned = << >>

Init ==
    /\ \E boot \in BootArtifacts : PolicyRuntime_new(boot).ok /\ InitService(boot)
    /\ sb = NewSandbox(RefGuest, PlainBody)

(***************************************************************************)
(* tokio::sync::RwLock: fair, first in first out.  A lock is its writer,   *)
(* the readers holding it and the tasks queued for it; a release hands the *)
(* lock to the head of the queue.                                          *)
(***************************************************************************)
\* A release that hands the lock to a queued writer ahead of the readers that
\* queued before it.
HandoffWritersFirst(l) ==
    LET ws == {i \in 1 .. Len(l.queue) : l.queue[i] \in Reloaders}
        first == CHOOSE i \in ws : \A j \in ws : i <= j
    IN  IF l.queue = << >> \/ l.writer # None \/ l.readers # {} THEN l
        ELSE IF ws # {}
        THEN [writer |-> l.queue[first], readers |-> {},
              queue |-> SubSeq(l.queue, 1, first - 1)
                        \o SubSeq(l.queue, first + 1, Len(l.queue))]
        ELSE [writer |-> None,
              readers |-> {l.queue[i] : i \in 1 .. Len(l.queue)},
              queue |-> << >>]

RECURSIVE Handoff(_)
Handoff(l) ==
    IF l.queue = << >> \/ l.writer # None THEN l
    ELSE LET h == Head(l.queue)
         IN  IF h \in Reloaders
             THEN IF l.readers = {}
                  THEN [writer |-> h, readers |-> {}, queue |-> Tail(l.queue)]
                  ELSE l
             ELSE Handoff([l EXCEPT !.readers = @ \cup {h}, !.queue = Tail(@)])

\* A lock that excludes nobody.
CanAcquireAlways(l, t) == TRUE

\* read() or write() is granted at once when nothing holds or waits.
CanAcquire(l, t) ==
    /\ l.queue = << >>
    /\ l.writer = None
    /\ (t \in Requests \/ l.readers = {})

Enqueue(l, t) == [l EXCEPT !.queue = Append(@, t)]
AcquireRead(l, r) == [l EXCEPT !.readers = @ \cup {r}]
AcquireWrite(l, w) == [l EXCEPT !.writer = w]
ReleaseWrite(l, w) == Handoff([l EXCEPT !.writer = None])

\* The read guard kept by the handler.
KeepRead(l, r) == [l EXCEPT !.readers = @ \cup {r}]

\* main.rs:119-120: `{ lock.read().await.clone() }` drops the read guard at the
\* end of the block, before the handler goes on.
ReleaseRead(l, r) == Handoff([l EXCEPT !.readers = @ \ {r}])

(***************************************************************************)
(* /evaluate (main.rs evaluate_policy).                                    *)
(***************************************************************************)
\* A request arrives with its body and the handler runs to
\* let runtime = { state.runtime.read().await.clone() };
\* the read is granted at once, or the handler queues for it.
StartEvaluate(r, body) ==
    /\ req[r].pc = "idle"
    /\ IF CanAcquire(runtime_lock, r)
       THEN /\ runtime_lock' = ReleaseRead(AcquireRead(runtime_lock, r), r)
            /\ req' = [req EXCEPT ![r] = [IdleRequest EXCEPT !.body = body,
                                                             !.start = policy_version.pub,
                                                             !.runtime = runtime,
                                                             !.pc = "read_version"]]
       ELSE /\ runtime_lock' = Enqueue(runtime_lock, r)
            /\ req' = [req EXCEPT ![r] = [IdleRequest EXCEPT !.body = body,
                                                             !.start = policy_version.pub,
                                                             !.pc = "wait_runtime"]]
    /\ UNCHANGED <<disk, clock, events, runtime, policy_version, version_lock,
                   rel, reloads, sb, evals, returned>>

\* The queued read() is granted: clone, drop the guard.
ReadRuntimeGranted(r) ==
    /\ req[r].pc = "wait_runtime"
    /\ r \in runtime_lock.readers
    /\ runtime_lock' = ReleaseRead(runtime_lock, r)
    /\ req' = [req EXCEPT ![r].runtime = runtime, ![r].pc = "read_version"]
    /\ UNCHANGED <<disk, clock, events, runtime, policy_version, version_lock,
                   rel, reloads, sb, evals, returned>>

\* The policy_version of a response read from the registry when answering.
ResponseVersionCurrent(r) == policy_version.tag

\* The policy_version of a response: the handler's local, cloned at line 120.
ResponseVersion(r) == req[r].policy_version.tag

\* The parse failure answered without an error string.
InvalidJsonResponseNoError(v) ==
    [sent |-> TRUE, allowed |-> FALSE, policy_version |-> v, error |-> NoErrorField]

\* main.rs:121-127
InvalidJsonResponse(v) ==
    [sent |-> TRUE, allowed |-> FALSE, policy_version |-> v,
     error |-> SomeError(Text("Invalid JSON: {}"))]

\* The match with the error of a failed evaluation dropped.
EvalResponseNoError(eval_result, v) ==
    [sent |-> TRUE,
     allowed |-> IF eval_result.kind = "Ok" THEN eval_result.allowed ELSE FALSE,
     policy_version |-> v, error |-> NoErrorField]

\* main.rs:134-150: the match on the joined result.
EvalResponse(eval_result, v) ==
    CASE eval_result.kind = "Ok" ->
           [sent |-> TRUE, allowed |-> eval_result.allowed, policy_version |-> v,
            error |-> NoErrorField]
      [] eval_result.kind = "Err" ->
           [sent |-> TRUE, allowed |-> FALSE, policy_version |-> v,
            error |-> SomeError(ErrorToString(eval_result.err))]
      [] OTHER ->
           [sent |-> TRUE, allowed |-> FALSE, policy_version |-> v,
            error |-> SomeError(Text("Policy execution join error: {}"))]

\* The result of a blocking task that did not run to its end.
JoinError == [kind |-> "JoinError", allowed |-> FALSE, err |-> NoError]

\* let policy_version = { state.policy_version.read().await.clone() }; then the
\* JSON check, and either the Invalid JSON response or spawn_blocking.
ReadVersion(r) ==
    /\ req[r].pc = "read_version"
    /\ CanAcquire(version_lock, r)
    /\ version_lock' = ReleaseRead(AcquireRead(version_lock, r), r)
    /\ LET got == [req EXCEPT ![r].policy_version = policy_version]
       IN  IF req[r].body.json
           THEN req' = [got EXCEPT ![r].pc = "running"]
           ELSE req' = [got EXCEPT ![r].pc = "responded",
                                   ![r].response =
                                       InvalidJsonResponse(policy_version.tag)]
    /\ UNCHANGED <<disk, clock, events, runtime, policy_version, runtime_lock,
                   rel, reloads, sb, evals, returned>>

\* The blocking task runs runtime.evaluate_policy(&request_bytes) to its end and
\* the handler answers from the result.
Complete(r) ==
    /\ req[r].pc = "running"
    /\ LET run == PolicyRuntime_evaluate_policy(req[r].runtime.module, req[r].body)
       IN  req' = [req EXCEPT ![r].pc = "responded",
                              ![r].eval = run.result,
                              ![r].ran = TRUE,
                              ![r].ea = run.ea,
                              ![r].response = EvalResponse(run.result, ResponseVersion(r))]
    /\ UNCHANGED <<disk, clock, events, runtime, policy_version, runtime_lock,
                   version_lock, rel, reloads, sb, evals, returned>>

\* The blocking task is cancelled or panics: the join fails.
JoinFails(r) ==
    /\ req[r].pc = "running"
    /\ req' = [req EXCEPT ![r].pc = "responded",
                          ![r].eval = JoinError,
                          ![r].response = EvalResponse(JoinError, ResponseVersion(r))]
    /\ UNCHANGED <<disk, clock, events, runtime, policy_version, runtime_lock,
                   version_lock, rel, reloads, sb, evals, returned>>

\* The response is sent; the handler's locals are dropped.
Finish(r) ==
    /\ req[r].pc = "responded"
    /\ req' = [req EXCEPT ![r] = IdleRequest]
    /\ UNCHANGED <<disk, clock, events, runtime, policy_version, runtime_lock,
                   version_lock, rel, reloads, sb, evals, returned>>

(***************************************************************************)
(* The artifact file, the clock and the debounced file watcher.            *)
(***************************************************************************)
\* Reads of the file done or asked for: a watcher at "read" has its read
\* still to come.
Started == reloads + (IF rel[Watcher].pc = "read" THEN 1 ELSE 0)

\* default.wasm is replaced (or made unreadable) while a reload can still read
\* it; the debouncer sends () on the channel, or the change falls into the quiet
\* period of a pending event.
DiskWrite(a) ==
    /\ a # disk
    /\ reloads < MaxReloads
    /\ disk' = a
    /\ events' = IF events + Started < MaxReloads THEN events + 1 ELSE events
    /\ UNCHANGED <<clock, runtime, policy_version, runtime_lock, version_lock,
                   req, rel, reloads, sb, evals, returned>>

\* SystemTime::now() at a reload: the second of the last reading, or a later
\* one (the next stands for any later second).
ClockReadings == {clock, clock + 1}

(***************************************************************************)
(* Reloads: watch_policies (watcher.rs:63-84) and reload_policy             *)
(* (main.rs:154-183).                                                      *)
(***************************************************************************)
\* while rx.recv().await.is_some(): the watcher takes an event and starts
\* tokio::fs::read.
WatcherRecv ==
    /\ rel[Watcher].pc = "idle"
    /\ events > 0
    /\ Started < MaxReloads
    /\ events' = events - 1
    /\ rel' = [rel EXCEPT ![Watcher] = [IdleReloader EXCEPT !.pc = "read"]]
    /\ UNCHANGED <<disk, clock, runtime, policy_version, runtime_lock,
                   version_lock, req, reloads, sb, evals, returned>>

\* The match with the result of PolicyRuntime::new taken as Ok.
ReloadOutcomeUncompiled(file) ==
    IF file = Unreadable THEN "read_failed" ELSE "compiled"

\* The match on fs::read and on PolicyRuntime::new: what the reload goes on to.
ReloadOutcome(file) ==
    IF file = Unreadable THEN "read_failed"
    ELSE IF ~PolicyRuntime_new(file).ok THEN "compile_failed"
    ELSE "compiled"

\* The reloader after fs::read, PolicyRuntime::new and make_policy_version: the
\* new runtime and version are ready to be published as publish `pub`, or the
\* failure is logged (or answered) and the reload ends.
AfterRead(file, now, rd) ==
    IF ReloadOutcome(file) = "compiled"
    THEN [IdleReloader EXCEPT !.pc = "write_runtime",
                              !.module = PolicyRuntime_new(file).module,
                              !.new_version = make_policy_version(file.len, now),
                              !.rd = rd]
    ELSE IdleReloader

\* watcher.rs:66: tokio::fs::read reads the file on a blocking thread while the
\* watcher task is suspended at the await.
WatcherRead ==
    /\ rel[Watcher].pc = "read"
    /\ reloads' = reloads + 1
    /\ rel' = [rel EXCEPT ![Watcher].pc = "compile", ![Watcher].file = disk,
                          ![Watcher].rd = reloads + 1]
    /\ UNCHANGED <<disk, clock, events, runtime, policy_version, runtime_lock,
                   version_lock, req, sb, evals, returned>>

\* watcher.rs:66-69: the watcher task resumes with the result of the read,
\* compiles it and stamps it.
WatcherCompile ==
    /\ rel[Watcher].pc = "compile"
    /\ \E now \in ClockReadings :
          /\ clock' = now
          /\ rel' = [rel EXCEPT ![Watcher] =
                         AfterRead(rel[Watcher].file, now, rel[Watcher].rd)]
    /\ UNCHANGED <<disk, events, runtime, policy_version, runtime_lock,
                   version_lock, req, reloads, sb, evals, returned>>

\* POST /reload arrives: main.rs:155-160, the same without an await.
ReloadRequest ==
    /\ rel[Manual].pc = "idle"
    /\ Started < MaxReloads
    /\ reloads' = reloads + 1
    /\ \E now \in ClockReadings :
          /\ clock' = now
          /\ rel' = [rel EXCEPT ![Manual] = AfterRead(disk, now, reloads + 1)]
    /\ UNCHANGED <<disk, events, runtime, policy_version, runtime_lock,
                   version_lock, req, sb, evals, returned>>

\* The publish never stores the new runtime.
StoreRuntimeKept(w) == runtime

\* *guard = Arc::new(new_runtime);
StoreRuntime(w) ==
    RuntimeEntry(rel[w].module, runtime.pub + 1, rel[w].new_version, rel[w].rd)

\* *version = new_version;
StoreVersion(w) ==
    VersionEntry(rel[w].new_version, policy_version.pub + 1, rel[w].module)

\* let mut guard = state.runtime.write().await; *guard = Arc::new(new_runtime);
WriteRuntime(w) ==
    /\ rel[w].pc = "write_runtime"
    /\ IF CanAcquire(runtime_lock, w)
       THEN /\ runtime_lock' = AcquireWrite(runtime_lock, w)
            /\ runtime' = StoreRuntime(w)
            /\ rel' = [rel EXCEPT ![w].pc = "write_version"]
       ELSE /\ runtime_lock' = Enqueue(runtime_lock, w)
            /\ rel' = [rel EXCEPT ![w].pc = "wait_runtime"]
            /\ UNCHANGED runtime
    /\ UNCHANGED <<disk, clock, events, policy_version, version_lock, req,
                   reloads, sb, evals, returned>>

\* The queued write() is granted.
WriteRuntimeGranted(w) ==
    /\ rel[w].pc = "wait_runtime"
    /\ runtime_lock.writer = w
    /\ runtime' = StoreRuntime(w)
    /\ rel' = [rel EXCEPT ![w].pc = "write_version"]
    /\ UNCHANGED <<disk, clock, events, policy_version, runtime_lock,
                   version_lock, req, reloads, sb, evals, returned>>

\* let mut version = state.policy_version.write().await; *version = new_version;
\* then both guards are dropped at the end of the arm.
WriteVersion(w) ==
    /\ rel[w].pc = "write_version"
    /\ CanAcquire(version_lock, w)
    /\ policy_version' = StoreVersion(w)
    /\ version_lock' = ReleaseWrite(AcquireWrite(version_lock, w), w)
    /\ runtime_lock' = ReleaseWrite(runtime_lock, w)
    /\ rel' = [rel EXCEPT ![w] = IdleReloader]
    /\ UNCHANGED <<disk, clock, events, runtime, req, reloads, sb, evals, returned>>

(***************************************************************************)
(* The service.                                                            *)
(***************************************************************************)
Next ==
    \/ \E r \in Requests, body \in Bodies : StartEvaluate(r, body)
    \/ \E r \in Requests : ReadRuntimeGranted(r)
    \/ \E r \in Requests : ReadVersion(r)
    \/ \E r \in Requests : Complete(r)
    \/ \E r \in Requests : JoinFails(r)
    \/ \E r \in Requests : Finish(r)
    \/ \E a \in DiskArtifacts \cup {Unreadable} : DiskWrite(a)
    \/ WatcherRecv
    \/ WatcherRead
    \/ WatcherCompile
    \/ ReloadRequest
    \/ \E w \in Reloaders : WriteRuntime(w)
    \/ \E w \in Reloaders : WriteRuntimeGranted(w)
    \/ \E w \in Reloaders : WriteVersion(w)

Spec == Init /\ [][Next]_vars

\* The service up to the dispatch of the evaluation, with a body that parses
\* and one change of the file to an artifact that compiles, so that every
\* reload publishes and the request takes both locks.
NextFair ==
    \/ \E r \in Requests : StartEvaluate(r, AdminBody)
    \/ \E r \in Requests : ReadRuntimeGranted(r)
    \/ \E r \in Requests : ReadVersion(r)
    \/ DiskWrite(UnknownImport)
    \/ WatcherRecv
    \/ WatcherRead
    \/ WatcherCompile
    \/ ReloadRequest
    \/ \E w \in Reloaders : WriteRuntime(w)
    \/ \E w \in Reloaders : WriteRuntimeGranted(w)
    \/ \E w \in Reloaders : WriteVersion(w)

\* The current_thread runtime polls every task that is ready: a handler or a
\* reloader whose lock is granted, or that has a lock to ask for, takes its
\* step.
Fairness ==
    /\ \A r \in Requests : WF_vars(ReadRuntimeGranted(r)) /\ WF_vars(ReadVersion(r))
    /\ \A w \in Reloaders :
          /\ WF_vars(WriteRuntime(w))
          /\ WF_vars(WriteRuntimeGranted(w))
          /\ WF_vars(WriteVersion(w))

SpecFair == Init /\ [][NextFair]_vars /\ Fairness

(***************************************************************************)
(* One evaluation, statement by statement.                                 *)
(***************************************************************************)
ServiceVars == <<disk, clock, events, runtime, policy_version, runtime_lock,
                 version_lock, req, rel, reloads>>

InitEval ==
    /\ InitService(RefGuest)
    /\ \E m \in Catalogue, q \in EvalRequests :
          /\ PolicyRuntime_new(m).ok
          /\ sb = NewSandbox(PolicyRuntime_new(m).module, q)

EvalSetFuel ==
    /\ sb.pc = "set_fuel"
    /\ sb' = StepSandbox(sb)
    /\ UNCHANGED <<ServiceVars, evals, returned>>

EvalLink ==
    /\ sb.pc = "link"
    /\ sb' = StepSandbox(sb)
    /\ UNCHANGED <<ServiceVars, evals, returned>>

EvalInstantiate ==
    /\ sb.pc = "instantiate"
    /\ sb' = StepSandbox(sb)
    /\ UNCHANGED <<ServiceVars, evals, returned>>

EvalGetMemory ==
    /\ sb.pc = "get_memory"
    /\ sb' = StepSandbox(sb)
    /\ UNCHANGED <<ServiceVars, evals, returned>>

EvalGetInputBuffer ==
    /\ sb.pc = "get_input_buffer"
    /\ sb' = StepSandbox(sb)
    /\ UNCHANGED <<ServiceVars, evals, returned>>

EvalBoundsCheck ==
    /\ sb.pc = "bounds"
    /\ sb' = StepSandbox(sb)
    /\ UNCHANGED <<ServiceVars, evals, returned>>

EvalWrite ==
    /\ sb.pc = "write"
    /\ sb' = StepSandbox(sb)
    /\ UNCHANGED <<ServiceVars, evals, returned>>

EvalGetEvaluate ==
    /\ sb.pc = "get_evaluate"
    /\ sb' = StepSandbox(sb)
    /\ UNCHANGED <<ServiceVars, evals, returned>>

EvalCall ==
    /\ sb.pc = "call"
    /\ sb' = StepSandbox(sb)
    /\ UNCHANGED <<ServiceVars, evals, returned>>

NextEval ==
    \/ EvalSetFuel
    \/ EvalLink
    \/ EvalInstantiate
    \/ EvalGetMemory
    \/ EvalGetInputBuffer
    \/ EvalBoundsCheck
    \/ EvalWrite
    \/ EvalGetEvaluate
    \/ EvalCall

SpecEval == InitEval /\ [][NextEval]_vars

(***************************************************************************)
(* The /evaluate handler alone, for every module the service can boot with *)
(* and every body.                                                         *)
(***************************************************************************)
HandlerBodies == EvalRequests \cup {NotJsonBody}

InitHandler ==
    /\ \E boot \in Catalogue : PolicyRuntime_new(boot).ok /\ InitService(boot)
    /\ sb = NewSandbox(RefGuest, PlainBody)

NextHandler ==
    \/ \E r \in Requests, body \in HandlerBodies : StartEvaluate(r, body)
    \/ \E r \in Requests : ReadVersion(r)
    \/ \E r \in Requests : Complete(r)
    \/ \E r \in Requests : JoinFails(r)
    \/ \E r \in Requests : Finish(r)

SpecHandler == InitHandler /\ [][NextHandler]_vars

(***************************************************************************)
(* The host.log closure: one evaluation of a guest whose start function or *)
(* evaluate_access calls host.log(ptr, len), for i32 arguments at the      *)
(* edges, memories of several sizes, exported or not, and bytes that are   *)
(* valid UTF-8 or not.                                                     *)
(***************************************************************************)
\* i32 arguments at the edges of the type, of the guest's limit and of a memory.
I32Samples ==
    {-I32_MAX - 1, -I32_MAX, -8193, -1, 0, 1, 1024, 8192, 8193, 65535, 65536,
     65537, 1114112, I32_MAX - 1, I32_MAX}

LogMemorySizes == {0, 65536, 1114112}

LogGuest(ptr, len, utf8, memExported, memSize, in_start) ==
    IF in_start
    THEN Artifact("log_in_start", 5, TRUE, {HostLog}, Logs(0, ptr, len, utf8),
                  memExported, memSize, Absent, Returns(1, 10))
    ELSE Artifact("log_in_evaluate", 5, TRUE, {HostLog}, Absent,
                  memExported, memSize, Absent, Logs(1, ptr, len, utf8))

InitLog ==
    /\ InitService(RefGuest)
    /\ \E ptr \in I32Samples, len \in I32Samples, utf8 \in BOOLEAN,
          memExported \in BOOLEAN, memSize \in LogMemorySizes, in_start \in BOOLEAN :
          sb = NewSandbox(LogGuest(ptr, len, utf8, memExported, memSize, in_start),
                          PlainBody)

SpecLog == InitLog /\ [][NextEval]_vars

(***************************************************************************)
(* evaluate_policy calls on the blocking threads.  Each call runs on its   *)
(* own thread with its own Store, Linker and Instance (locals of           *)
(* evaluate_policy) over the Engine and Module of the PolicyRuntime it was *)
(* given; the threads run in parallel, so the statements of two calls      *)
(* interleave in any order.                                                *)
(***************************************************************************)
\* spawn_blocking(move || runtime.evaluate_policy(&body)) and Store::new:
\* `after` is the number of calls that had returned when this one started.
PoolStart(e, m, q) ==
    /\ e \notin DOMAIN evals
    /\ Len(returned) + Cardinality(DOMAIN evals) < MaxEvaluations
    /\ evals' = [x \in DOMAIN evals \cup {e} |->
                    IF x = e
                    THEN [after |-> Len(returned),
                          call |-> NewSandbox(PolicyRuntime_new(m).module, q)]
                    ELSE evals[x]]
    /\ UNCHANGED <<ServiceVars, sb, returned>>

\* The next statement of the call on thread e.
PoolStep(e) ==
    /\ e \in DOMAIN evals
    /\ evals[e].call.pc # "done"
    /\ evals' = [evals EXCEPT ![e].call = StepSandbox(@)]
    /\ UNCHANGED <<ServiceVars, sb, returned>>

\* evaluate_policy returns: its store, linker and instance are dropped.
PoolReturn(e) ==
    /\ e \in DOMAIN evals
    /\ evals[e].call.pc = "done"
    /\ returned' = Append(returned, [module |-> evals[e].call.module,
                                     request |-> evals[e].call.request,
                                     result |-> evals[e].call.result])
    /\ evals' = [x \in DOMAIN evals \ {e} |-> evals[x]]
    /\ UNCHANGED <<ServiceVars, sb>>

NextPool ==
    \/ \E e \in Evaluations, m \in {RefGuest, GibCostly}, q \in {AdminBody, BlockedAdminBody} :
          PoolStart(e, m, q)
    \/ \E e \in Evaluations : PoolStep(e)
    \/ \E e \in Evaluations : PoolReturn(e)

SpecPool == Init /\ [][NextPool]_vars

(***************************************************************************)
(* Properties.                                                             *)
(***************************************************************************)
Evaluated(r) == req[r].pc = "responded" /\ req[r].ran

\* C1 (as claimed).  Under every interleaving of /evaluate requests with
\* watcher and manual reloads, the module that evaluated a request and the
\* policy_version of its response belong to one registry entry, the boot entry
\* or one publish: either both were written by the same publish, or the two
\* publishes wrote the same module and the same tag.
C1_SnapshotOfOneEntry ==
    \A r \in Requests :
        Evaluated(r) =>
            \/ req[r].runtime.pub = req[r].policy_version.pub
            \/ /\ req[r].runtime.module = req[r].policy_version.module
               /\ req[r].runtime.tag = req[r].response.policy_version

\* C2.  Once a request holds its runtime reference (and then its version
\* string), no step of any reload changes them: while the evaluation runs both
\* stay what was acquired, the result is that of the acquired module on the
\* request's body, and the response carries the acquired version string.
C2_SnapshotHeld ==
    [][\A r \in Requests :
          /\ req[r].pc = "read_version" => req'[r].runtime = req[r].runtime
          /\ req[r].pc = "running" =>
                /\ req'[r].pc \in {"running", "responded"}
                /\ req'[r].runtime = req[r].runtime
                /\ req'[r].policy_version = req[r].policy_version
                /\ req'[r].pc = "responded" =>
                      /\ req'[r].response.policy_version = req[r].policy_version.tag
                      /\ req'[r].ran =>
                            req'[r].eval =
                                PolicyRuntime_evaluate_policy(req[r].runtime.module,
                                                              req[r].body).result]_vars

\* C2 witness: a response carrying a version string that a later publish has
\* since replaced in the registry.
C2_Witness ==
    \E r \in Requests :
        /\ Evaluated(r)
        /\ req[r].policy_version.pub < policy_version.pub
        /\ req[r].response.policy_version # policy_version.tag
        /\ req[r].runtime.module # runtime.module

\* The step in which reloader w gets the result of its read of the file, and
\* what the read gave.
ReadStep(w) ==
    IF w = Watcher
    THEN rel[Watcher].pc = "compile" /\ rel'[Watcher].pc # "compile"
    ELSE rel[Manual].pc = "idle" /\ reloads' = reloads + 1 /\ rel'[Watcher] = rel[Watcher]

FileRead(w) == IF w = Watcher THEN rel[Watcher].file ELSE disk

Publishing(w) == rel[w].pc \in {"write_runtime", "wait_runtime", "write_version"}

\* C3.  A reload whose read of the file fails, or whose PolicyRuntime::new
\* fails, on the watcher path and on the /reload path, ends there and leaves
\* runtime and policy_version as they were; the registry is written only by a
\* reload that read and compiled its artifact.
C3_FailedReloadKeepsRegistry ==
    [][/\ \A w \in Reloaders :
             (ReadStep(w) /\ (FileRead(w) = Unreadable \/ ~FileRead(w).compiles)) =>
                 /\ rel'[w] = IdleReloader
                 /\ runtime' = runtime
                 /\ policy_version' = policy_version
       /\ (runtime' # runtime \/ policy_version' # policy_version) =>
             \E w \in Reloaders : Publishing(w) /\ rel[w].module.compiles]_vars

\* C3 witness: every reload of the behaviour has failed, one on each path, and
\* a request evaluated afterwards ran the boot module under the boot version.
C3_Witness ==
    /\ reloads = MaxReloads
    /\ events = 0
    /\ \A w \in Reloaders : rel[w] = IdleReloader
    /\ runtime.pub = 0 /\ policy_version.pub = 0
    /\ disk = NotWasm
    /\ \E r \in Requests :
          Evaluated(r) /\ req[r].runtime = runtime
                       /\ req[r].response.policy_version = policy_version.tag

\* An evaluation against module m gets past linker.instantiate.
Instantiable(m) ==
    Instantiate(LinkHostLog(SetFuel(NewSandbox(m, PlainBody)))).result.kind # "Err"

\* C4 (as claimed).  After boot and any sequence of reloads the registry holds
\* a module that is compiled and instantiable.
C4_RegistryInstantiable == runtime.module.compiles /\ Instantiable(runtime.module)

\* C4: the registry after a reload published a module that compiles and cannot
\* be instantiated.
C4_PublishedUninstantiable ==
    runtime.pub > 0 /\ runtime.module.compiles /\ ~Instantiable(runtime.module)

\* The guest's evaluate_access returned normally in the evaluation of r.
Returned(r) == req[r].ran /\ req[r].ea.outcome = "Return"

\* C5.  evaluate_policy returns a verdict exactly when the guest's
\* evaluate_access returned normally with an integer, the verdict is allow
\* exactly when that integer is not 0, and a response has allowed = true if
\* and only if evaluate_access returned a non-zero integer.
C5_VerdictOnlyFromGuest ==
    \A r \in Requests :
        req[r].pc = "responded" =>
            /\ req[r].eval.kind = "Ok" <=> Returned(r)
            /\ req[r].eval.kind = "Ok" => (req[r].eval.allowed <=> req[r].ea.val # 0)
            /\ req[r].response.allowed <=> (Returned(r) /\ req[r].ea.val # 0)

\* C5 witness: an allow from a guest that returned a negative integer.
C5_Witness ==
    \E r \in Requests :
        /\ req[r].pc = "responded"
        /\ req[r].response.allowed
        /\ Returned(r) /\ req[r].ea.val < 0

\* The function of module m that a call recorded in sb.calls entered.
GuestFn(m, name) ==
    CASE name = "start" -> m.start
      [] name = "get_input_buffer" -> m.get_input_buffer
      [] OTHER -> m.evaluate_access

EnteredLoop(s) == \E i \in 1 .. Len(s.calls) : GuestFn(s.module, s.calls[i]).kind = "loop"

\* C6 (as claimed).  An evaluation that enters an infinite loop in any guest
\* code it runs (the start function at instantiation, get_input_buffer or
\* evaluate_access) ends with FuelExhausted{consumed: 1_000_000}.
C6_LoopYieldsFuelExhausted ==
    (sb.pc = "done" /\ EnteredLoop(sb)) => sb.result = Err(FuelExhausted(FUEL_LIMIT))

\* input_offset + request_length <= memory_size, over the integers.
Fits(off, len, size) == off.wraps = 0 /\ off.lo + len <= size

Ran(s, pc) == \E i \in 1 .. Len(s.steps) : s.steps[i] = pc
Called(s, name) == \E i \in 1 .. Len(s.calls) : s.calls[i] = name

\* C7.  The request bytes are written only where input_offset + request_length
\* <= memory_size; an evaluation that reaches the bounds check with a request
\* that does not fit returns MemoryOutOfBounds carrying input_offset, has
\* written nothing, has not grown the memory and has not called
\* evaluate_access.  With no get_input_buffer export the offset is 1024.
C7_WriteOnlyInBounds ==
    /\ sb.written.done =>
          /\ Fits(sb.written.off, sb.written.len, sb.memSize)
          /\ sb.written.off = sb.input_ptr /\ sb.written.len = sb.request.len
    /\ (Ran(sb, "bounds") /\ ~Fits(sb.input_ptr, sb.request.len, sb.memSize)) =>
          /\ sb.pc = "done"
          /\ sb.result = Err(MemoryOutOfBounds(sb.input_ptr))
          /\ ~sb.written.done
          /\ sb.memSize = sb.module.memSize
          /\ ~Called(sb, "evaluate_access")
    /\ (Ran(sb, "get_input_buffer") /\ sb.module.get_input_buffer.kind = "absent") =>
          sb.input_ptr = Usize(INPUT_BUFFER_OFFSET)

\* C7 witness: a request one byte too long for the memory after the default
\* offset is refused with the offset 1024.
C7_Witness ==
    /\ sb.pc = "done"
    /\ sb.module.get_input_buffer.kind = "absent"
    /\ sb.input_ptr.lo + sb.request.len = sb.memSize + 1
    /\ sb.result = Err(MemoryOutOfBounds(Usize(INPUT_BUFFER_OFFSET)))

Failed(r) == ~req[r].body.json \/ req[r].eval.kind \in {"Err", "JoinError"}

\* C8.  Every failed /evaluate request (invalid JSON, an evaluation error, a
\* join error) is answered with allowed = false and an error string, every
\* successful evaluation with no error field, and the handler is then free for
\* the next request.
C8_ErrorExactlyOnFailure ==
    \A r \in Requests :
        /\ req[r].pc = "responded" =>
              /\ req[r].response.sent
              /\ req[r].response.error.present <=> Failed(r)
              /\ Failed(r) => ~req[r].response.allowed
              /\ ~Failed(r) => req[r].eval.kind = "Ok"
              /\ ENABLED Finish(r)
        /\ req[r].pc = "idle" => ENABLED StartEvaluate(r, AdminBody)

\* C8 witness: an evaluation error answered with allowed = false and the text
\* of the error.
C8_Witness ==
    \E r \in Requests :
        /\ req[r].pc = "responded"
        /\ req[r].eval.kind = "Err"
        /\ req[r].response.error = SomeError(ErrorToString(req[r].eval.err))
        /\ ~req[r].response.allowed

\* C9 (as claimed).  Any request against a guest with no exported memory
\* yields FunctionNotFound("memory"); any request against a guest that lacks
\* evaluate_access yields FunctionNotFound.
C9_AnyRequestFunctionNotFound ==
    sb.pc = "done" =>
        /\ ~sb.module.memExported => sb.result = Err(FunctionNotFound("memory"))
        /\ sb.module.evaluate_access.kind = "absent" =>
              sb.result.err.type = "FunctionNotFound"

\* C9 (amended).  An evaluation that reaches the lookup of the memory of a
\* guest with no exported memory yields FunctionNotFound("memory"), and one
\* that reaches the lookup of evaluate_access in a guest that lacks it yields
\* FunctionNotFound("evaluate_access: ..."); an evaluation that fails earlier
\* (instantiation, get_input_buffer, the bounds check) returns that failure.
C9_FunctionNotFoundWhenReached ==
    sb.pc = "done" =>
        /\ (~sb.module.memExported /\ Ran(sb, "get_memory")) =>
              sb.result = Err(FunctionNotFound("memory"))
        /\ (sb.module.evaluate_access.kind = "absent" /\ Ran(sb, "get_evaluate")) =>
              sb.result = Err(FunctionNotFound("evaluate_access: {}"))
        /\ (sb.module.evaluate_access.kind = "absent" /\ ~Ran(sb, "get_evaluate")) =>
              /\ sb.result.kind = "Err"
              /\ sb.result.err.type \in {"PolicyExecutionError", "MemoryOutOfBounds",
                                         "FunctionNotFound"}

\* C9 witness: a request that fits, against a guest without evaluate_access.
C9_Witness ==
    /\ sb.pc = "done"
    /\ sb.module.evaluate_access.kind = "absent"
    /\ sb.written.done
    /\ sb.result = Err(FunctionNotFound("evaluate_access: {}"))

LockTasks(l) == l.readers \cup {l.queue[i] : i \in 1 .. Len(l.queue)}

\* C10.  No request holds or waits for a registry lock while its evaluation is
\* dispatched or running (or answered): the only requests at the runtime lock
\* are those waiting for their snapshot, the version lock is never held across
\* a step, a reloader that finds the runtime lock taken is behind another
\* reloader or behind requests waiting for their snapshot, and a reloader that
\* holds the runtime write lock can always complete its publish.
C10_PublishNeverWaitsForEvaluation ==
    /\ \A r \in Requests :
          req[r].pc \in {"read_version", "running", "responded"} =>
              r \notin LockTasks(runtime_lock) \cup LockTasks(version_lock)
    /\ \A r \in LockTasks(runtime_lock) \cap Requests : req[r].pc = "wait_runtime"
    /\ version_lock = FreeLock
    /\ \A w \in Reloaders :
          /\ rel[w].pc = "write_version" => ENABLED WriteVersion(w)
          /\ (rel[w].pc = "write_runtime" /\ ~CanAcquire(runtime_lock, w)) =>
                \/ runtime_lock.writer \in Reloaders \ {w}
                \/ \E t \in LockTasks(runtime_lock) :
                      t \in Reloaders \/ req[t].pc = "wait_runtime"

\* C10 witness: a publish completed, both locks free again, while an evaluation
\* dispatched before it is still running on the module it replaced.
C10_Witness ==
    /\ runtime_lock = FreeLock /\ version_lock = FreeLock
    /\ runtime.pub > 0 /\ policy_version.pub = runtime.pub
    /\ \E r \in Requests :
          /\ req[r].pc = "running"
          /\ req[r].runtime.pub < runtime.pub
          /\ req[r].policy_version.pub < runtime.pub

\* C11.  A request that starts acquiring its snapshot after publish P has
\* completed takes its module and its version tag from P or from a publish
\* written after P, never from an earlier one; while no later publish has
\* written the registry, the snapshot is the module and the tag of P, and the
\* response reports the tag of the snapshot.
C11_PublishVisibleToLaterRequests ==
    \A r \in Requests :
        /\ req[r].pc \in {"read_version", "running", "responded"} =>
              /\ req[r].runtime.pub >= req[r].start
              /\ runtime.pub = req[r].start => req[r].runtime = runtime
        /\ req[r].pc \in {"running", "responded"} =>
              /\ req[r].policy_version.pub >= req[r].start
              /\ runtime.pub = req[r].start => req[r].policy_version = policy_version
        /\ req[r].pc = "responded" =>
              req[r].response.policy_version = req[r].policy_version.tag

\* C11 witness: a request started after the first publish was evaluated by
\* the published module, not the boot module, and reports the published tag.
C11_Witness ==
    \E r \in Requests :
        /\ Evaluated(r)
        /\ req[r].start = 1
        /\ req[r].runtime.pub = 1 /\ req[r].policy_version.pub = 1
        /\ req[r].runtime.module = UnknownImport
        /\ req[r].response.policy_version = policy_version.tag

\* C12.  A request whose body does not parse as JSON is answered in the step
\* that reads policy_version, with allowed = false, the policy_version the
\* registry holds at that step and the error "Invalid JSON: ..."; it is never
\* dispatched: no evaluation runs for it, no sandbox is created and no guest
\* function is entered.
C12_InvalidJsonNotEvaluated ==
    [][\A r \in Requests :
          /\ (~req[r].body.json /\ req[r].pc = "read_version"
                                /\ req'[r].pc # "read_version") =>
                /\ req'[r].pc = "responded"
                /\ req'[r].response.sent
                /\ ~req'[r].response.allowed
                /\ req'[r].response.policy_version = policy_version.tag
                /\ req'[r].response.error = SomeError(Text("Invalid JSON: {}"))
          /\ ~req'[r].body.json =>
                /\ req'[r].pc # "running"
                /\ ~req'[r].ran
                /\ req'[r].eval = NoResult
                /\ req'[r].ea.outcome = "none"]_vars

\* C12 witness: an invalid body answered with the tag of a publish that
\* completed before the request read it.
C12_Witness ==
    \E r \in Requests :
        /\ req[r].pc = "responded"
        /\ ~req[r].body.json
        /\ req[r].policy_version.pub > 0
        /\ req[r].response.error.present
        /\ ~req[r].ran

GuestRejects(ptr, len) == len <= 0 \/ len > GUEST_MAX_LEN \/ ptr < 0

\* C13.  The reference guest's evaluate_access returns 0 for every call with
\* len <= 0 or len > 8192 or ptr < 0, without reading memory and without
\* calling host.log, whatever the host checked before; so an evaluation whose
\* request is longer than 8192 bytes and fits in the memory returns a deny,
\* not an error.
C13_GuestGuard ==
    /\ \A ptr \in I32Samples, len \in I32Samples, pats \in SUBSET {"blocked", "admin"} :
          GuestRejects(ptr, len) =>
              guest_evaluate_access(ptr, len, pats) = Outcome(0, FALSE, NoLogCall)
    /\ (sb.pc = "done" /\ sb.module.evaluate_access.kind = "reference") =>
          /\ (Called(sb, "evaluate_access")
                 /\ GuestRejects(UsizeAsI32(sb.input_ptr), sb.request.len)) =>
                /\ sb.ea = [outcome |-> "Return", val |-> 0]
                /\ ~sb.guest_read
                /\ sb.logs = << >>
                /\ sb.result = Ok(FALSE)
          /\ (sb.request.len > GUEST_MAX_LEN
                 /\ Fits(sb.input_ptr, sb.request.len, sb.memSize)) =>
                /\ Called(sb, "evaluate_access")
                /\ sb.result = Ok(FALSE)

\* C13 witness: an admin request of 8193 bytes, written to the memory, is
\* denied by the reference guest without an error.
C13_Witness ==
    /\ sb.pc = "done"
    /\ sb.module = RefGuest
    /\ sb.request.len = GUEST_MAX_LEN + 1
    /\ "admin" \in sb.request.pats /\ "blocked" \notin sb.request.pats
    /\ sb.written.done
    /\ Called(sb, "evaluate_access")
    /\ sb.result = Ok(FALSE)

\* The module without its calls of host.log.
Silent(m) ==
    [m EXCEPT !.start.log = NoLogCall, !.get_input_buffer.log = NoLogCall,
              !.evaluate_access.log = NoLogCall]

\* C14.  For every (ptr, len) and every memory, a call of host.log takes only
\* bytes inside the instance's exported memory, [from, to) with
\* 0 <= from < to <= memory size, and nothing when there is no exported memory;
\* it prints nothing when the clamped range is empty or the bytes are not
\* valid UTF-8; and it never fails the evaluation: the result is that of the
\* same module without the call.
C14_HostLogClamped ==
    /\ \A i \in 1 .. Len(sb.logs) :
          LET l == sb.logs[i]
          IN  /\ l.sliced =>
                    /\ sb.module.memExported
                    /\ 0 <= l.from /\ l.from < l.to /\ l.to <= sb.module.memSize
                    /\ l.from = l.ptr
              /\ l.forwarded => l.sliced
              /\ l.forwarded =>
                    \E f \in {sb.module.start, sb.module.evaluate_access} :
                        f.log.called /\ f.log.utf8
    /\ sb.pc = "done" =>
          sb.result = PolicyRuntime_evaluate_policy(Silent(sb.module), sb.request).result

\* C14 witness: a range that runs past the end of the memory is cut at the
\* memory size and the evaluation ends with the guest's verdict.
C14_Witness ==
    /\ sb.pc = "done"
    /\ sb.result = Ok(TRUE)
    /\ Len(sb.logs) = 1
    /\ sb.logs[1].sliced
    /\ sb.logs[1].len > sb.module.memSize
    /\ sb.logs[1].to = sb.module.memSize
    /\ sb.logs[1].forwarded

\* C20 (as claimed).  For every (ptr, len), host.log forwards exactly the bytes
\* of [ptr, min(ptr + len, memory size)), at most len bytes, and nothing when
\* len <= 0 (bytes valid UTF-8, memory exported).
C20_HostLogForwardsLenBytes ==
    \A i \in 1 .. Len(sb.logs) :
        LET l == sb.logs[i]
            size == sb.module.memSize
            call == IF sb.module.start.log.called THEN sb.module.start.log
                    ELSE sb.module.evaluate_access.log
        IN  (sb.module.memExported /\ call.utf8) =>
                IF l.len <= 0 \/ l.ptr < 0 \/ l.ptr >= size
                THEN ~l.forwarded
                ELSE /\ l.forwarded
                     /\ l.from = l.ptr
                     /\ l.to = (IF l.len >= size - l.ptr THEN size ELSE l.ptr + l.len)
                     /\ l.to - l.from <= l.len

\* The statements of evaluate_policy in the order of its text.
EvaluationOrder ==
    <<"set_fuel", "link", "instantiate", "get_memory", "get_input_buffer", "bounds",
      "write", "get_evaluate", "call">>

CallsOf(s, name) == {i \in 1 .. Len(s.calls) : s.calls[i] = name}

\* C15.  The steps of one evaluation happen in the order set fuel, link
\* host.log, instantiate, resolve memory, resolve input offset, bounds check,
\* write, (look up and) call evaluate_access, respond, each at most once;
\* evaluate_access is called at most once and only after the whole request was
\* written at the input offset; a verdict is returned only after all the
\* steps; the first failing step ends the evaluation with its error and
\* nothing runs after it.
C15_StepOrder ==
    /\ Len(sb.steps) <= Len(EvaluationOrder)
    /\ \A i \in 1 .. Len(sb.steps) : sb.steps[i] = EvaluationOrder[i]
    /\ sb.pc # "done" =>
          /\ sb.result = NoResult
          /\ sb.pc = EvaluationOrder[Len(sb.steps) + 1]
    /\ sb.pc = "done" =>
          /\ sb.result.kind \in {"Ok", "Err"}
          /\ ~ENABLED NextEval
    /\ sb.result.kind = "Ok" => sb.steps = EvaluationOrder
    /\ Cardinality(CallsOf(sb, "evaluate_access")) <= 1
    /\ Called(sb, "evaluate_access") =>
          /\ sb.pc = "done"
          /\ sb.written = [done |-> TRUE, off |-> sb.input_ptr, len |-> sb.request.len]
          /\ Ran(sb, "write")
          /\ sb.calls[Len(sb.calls)] = "evaluate_access"

\* C15 witness: an evaluation that failed at the bounds check after the guest
\* gave its offset: six steps, nothing written, evaluate_access not called.
C15_Witness ==
    /\ sb.pc = "done"
    /\ sb.steps = SubSeq(EvaluationOrder, 1, 6)
    /\ sb.calls = <<"get_input_buffer">>
    /\ sb.result.kind = "Err"
    /\ ~sb.written.done

\* The tasks that are at a lock: asking for it, queued for it or holding it.
AtLock ==
    {r \in Requests : req[r].pc \in {"wait_runtime", "read_version"}}
        \cup {w \in Reloaders : Publishing(w)}

LockStep ==
    \/ \E r \in Requests : ReadRuntimeGranted(r) \/ ReadVersion(r)
    \/ \E w \in Reloaders : WriteRuntime(w) \/ WriteRuntimeGranted(w) \/ WriteVersion(w)

Position(q, t) == CHOOSE i \in 1 .. Len(q) : q[i] = t

\* C16.  With readers taking the runtime read lock and then the version read
\* lock, and reloaders the runtime write lock and then, holding it, the version
\* write lock: whenever a task is at a lock some task at a lock can step (no
\* deadlock); under fair scheduling every request that asked for its snapshot
\* obtains it and every publish completes; and a request queued for the
\* runtime lock is passed only by the reloaders queued ahead of it (writers do
\* not starve readers).
C16_NoDeadlockNoStarvation ==
    /\ [](AtLock # {} => ENABLED LockStep)
    /\ \A r \in Requests :
          (req[r].pc \in {"wait_runtime", "read_version"})
              ~> (req[r].pc \in {"running", "responded"})
    /\ \A w \in Reloaders : Publishing(w) ~> (rel[w].pc = "idle")
    /\ [][\A r \in Requests, w \in Reloaders :
             (/\ req[r].pc = "wait_runtime"
              /\ r \notin runtime_lock.readers
              /\ runtime_lock.writer # w
              /\ runtime_lock'.writer = w) =>
                 /\ w \in LockTasks(runtime_lock)
                 /\ Position(runtime_lock.queue, w) < Position(runtime_lock.queue, r)]_vars

\* C16 witness: a request queued for the runtime lock behind one publish, with
\* the other reloader queued behind the request.
C16_Witness ==
    /\ runtime_lock.writer \in Reloaders
    /\ Len(runtime_lock.queue) = 2
    /\ runtime_lock.queue[1] \in Requests
    /\ runtime_lock.queue[2] \in Reloaders

\* Reloader w is between its two writes.
Between(w) == rel[w].pc = "write_version"

\* C17.  Publishes of the watcher and of /reload exclude each other: a
\* reloader between its runtime write and its version write holds the runtime
\* write lock and the runtime it wrote is still in the registry, so no write
\* of another publish falls between the two; whenever no reloader is between
\* its two writes, runtime and policy_version come from the same publish.
C17_PublishesExclusive ==
    /\ \A w \in Reloaders :
          Between(w) =>
              /\ runtime_lock.writer = w
              /\ \A v \in Reloaders \ {w} : ~Between(v)
              /\ runtime.module = rel[w].module
              /\ runtime.tag = rel[w].new_version
              /\ runtime.pub = policy_version.pub + 1
    /\ (\A w \in Reloaders : ~Between(w)) =>
          /\ runtime.pub = policy_version.pub
          /\ runtime.module = policy_version.module
          /\ runtime.tag = policy_version.tag

\* C17 witness: one publish is between its two writes while the other
\* reloader, its artifact read and compiled, waits for the runtime lock.
C17_Witness ==
    \E w \in Reloaders :
        /\ Between(w)
        /\ \E v \in Reloaders \ {w} :
              rel[v].pc = "wait_runtime" /\ v \in LockTasks(runtime_lock)

\* C18 (as claimed).  Publishes reach the registry in the order in which
\* their artifacts were read from the file: a publish never replaces a module
\* by one compiled from a different content that was read earlier.
C18_PublishInReadOrder ==
    [][runtime' # runtime =>
          \/ runtime'.rd > runtime.rd
          \/ runtime'.module = runtime.module]_vars

\* C19 (as claimed).  Every publish of a changed artifact stores a
\* policy_version that differs from the one it replaces.
C19_NewTagPerPublish ==
    [][(policy_version' # policy_version
           /\ policy_version'.module # policy_version.module) =>
          policy_version'.tag # policy_version.tag]_vars

\* C21 (as claimed).  Whatever the build, the i32 v returned by
\* get_input_buffer is used as the unsigned 32-bit number of the same bits, a
\* negative v as v + 2^32: that number is the input offset, it is the offset of
\* the bounds check input_offset + request_length <= memory_size (which a
\* negative v fails, every memory here being smaller than 2^31 bytes), and it
\* is the offset that MemoryOutOfBounds reports.  Numbers are compared as four
\* 16-bit limbs, least significant first.
C21_OffsetIsUnsigned32 ==
    \A bits \in PointerWidths :
        (Called(sb, "get_input_buffer") /\ Ran(sb, "bounds")) =>
            LET v == sb.module.get_input_buffer.val
                low == IF v < 0 THEN (I32_MAX + v) + 1 ELSE v
                bit31 == IF v < 0 THEN 32768 ELSE 0
                unsigned32 == <<low % 65536, (low \div 65536) + bit31, 0, 0>>
                fits == v >= 0 /\ v + sb.request.len <= sb.memSize
            IN  /\ UsizeValue(sb.input_ptr, bits) = unsigned32
                /\ fits <=> ~(sb.result.kind = "Err"
                              /\ sb.result.err.type = "MemoryOutOfBounds")
                /\ ~fits => /\ sb.result.err.type = "MemoryOutOfBounds"
                            /\ UsizeValue(sb.result.err.offset, bits) = unsigned32

\* C22.  Every evaluate_policy call starts from its own fresh sandbox: after
\* set_fuel and before its first guest call it has fuel 1,000,000, its memory
\* is the module's initial memory with nothing written until the call's own
\* write, and the fuel it has left is 1,000,000 less what its own guest calls
\* cost.  Its outcome depends only on the module and the request: two calls
\* with the same module and the same request that have executed the same
\* number of statements are in the same state, and any two finished calls of
\* the same request against the same module (running at the same time, or one
\* returned before the other started) have the same verdict or error.
C22_EvaluationsIsolated ==
    /\ \A e \in DOMAIN evals :
          LET s == evals[e].call
              spent(name) == IF Called(s, name) THEN GuestFn(s.module, name).cost ELSE 0
          IN  /\ (Ran(s, "set_fuel") /\ s.calls = << >>) => s.fuel = FUEL_LIMIT
              /\ (s.fuel > 0 /\ Ran(s, "set_fuel")) =>
                    s.fuel = ((FUEL_LIMIT - spent("start")) - spent("get_input_buffer"))
                                - spent("evaluate_access")
              /\ ~Ran(s, "write") => ~s.written.done
              /\ Ran(s, "get_memory") => s.memSize = s.module.memSize
              /\ s.pc = "done" =>
                    s.result = PolicyRuntime_evaluate_policy(s.module, s.request).result
    /\ \A e1, e2 \in DOMAIN evals :
          (/\ evals[e1].call.module = evals[e2].call.module
           /\ evals[e1].call.request = evals[e2].call.request
           /\ Len(evals[e1].call.steps) = Len(evals[e2].call.steps)) =>
              evals[e1].call = evals[e2].call
    /\ \A i \in 1 .. Len(returned) :
          /\ \A j \in 1 .. Len(returned) :
                (returned[i].module = returned[j].module
                 /\ returned[i].request = returned[j].request) =>
                    returned[i].result = returned[j].result
          /\ \A e \in DOMAIN evals :
                (/\ evals[e].call.pc = "done"
                 /\ returned[i].module = evals[e].call.module
                 /\ returned[i].request = evals[e].call.request) =>
                    returned[i].result = evals[e].call.result

\* C22 witness: a call of the reference guest has returned an allow; a later
\* call with the same module and request, started after that return, is
\* finished with the same allow while the call on the other thread has used up
\* its fuel.
C22_Witness ==
    /\ \E i \in 1 .. Len(returned) :
          /\ returned[i].module = RefGuest
          /\ returned[i].request = AdminBody
          /\ returned[i].result = Ok(TRUE)
    /\ \E e1, e2 \in DOMAIN evals :
          /\ evals[e1].call.module = GibCostly
          /\ evals[e1].call.fuel = 0
          /\ evals[e1].call.result = Err(FuelExhausted(FUEL_LIMIT))
          /\ evals[e2].after >= 1
          /\ evals[e2].call.module = RefGuest
          /\ evals[e2].call.request = AdminBody
          /\ evals[e2].call.pc = "done"
          /\ evals[e2].call.result = Ok(TRUE)

====
